---- MODULE Spec2Model ----
(***************************************************************************)
(* Ghostty config syntax extension: the schema loader (src/schema/loader)  *)
(* and the diagnostic provider (providers/diagnosticProvider).             *)
(*                                                                         *)
(* Text is modelled as a sequence of lines, a line as a sequence of tokens *)
(* (a token is a run of characters: one blank, one "=", one "#", or a word *)
(* without any of these), and character offsets are sums of token lengths. *)
(***************************************************************************)
EXTENDS Integers, Sequences, FiniteSets, TLC

VARIABLES
  platform,             \* process.platform, fixed for the life of the process
  schema,               \* GhosttyDiagnosticProvider.schema: the object, by its content's name
  config,               \* workspace configuration 'ghostty-config-syntax'
  textDocuments,        \* workspace.textDocuments of this language: uri -> text
  diagnosticCollection, \* the DiagnosticCollection: uri -> Diagnostic[]
  validatorCalls,       \* history: validateValue calls made by the latest pass
  artifact,             \* state of schema/ghostty-syntax.schema.json on disk
  cachedSchema,         \* loader.ts module variable cachedSchema
  nextRef,              \* identity of the next object the loader allocates
  readCount,            \* history: number of fs.readFileSync calls
  returned,             \* history: one record per loadSchema call
  repeatableQuery,      \* history: the latest isRepeatableKey call and its result
  fileSystem,           \* the config paths on disk: path -> state of the file
  pc,                   \* the await at which the open-config handler is suspended
  locations,            \* the handler's local 'locations'
  selectedPath,         \* the handler's local 'selectedPath'
  activeEditor,         \* the path of the document shown in the editor
  lastWrite             \* history: the latest fs.writeFileSync of the command

diagVars == <<platform, schema, config, textDocuments, diagnosticCollection, validatorCalls>>
loaderVars == <<artifact, cachedSchema, nextRef, readCount, returned, repeatableQuery>>
commandVars == <<fileSystem, pc, locations, selectedPath, activeEditor, lastWrite>>
vars == <<platform, schema, config, textDocuments, diagnosticCollection, validatorCalls,
          artifact, cachedSchema, nextRef, readCount, returned, repeatableQuery,
          fileSystem, pc, locations, selectedPath, activeEditor, lastWrite>>

(***************************************************************************)
(* Bounds                                                                  *)
(***************************************************************************)
MaxLines == 4
MaxCalls == 3

(***************************************************************************)
(* Generic helpers                                                         *)
(***************************************************************************)
Null == "null"
\* The one ghostty document of the model, and a map without it
Uri == "config"
EmptyMap == [u \in {} |-> <<>>]

Range(s) == {s[i] : i \in DOMAIN s}

RECURSIVE Flatten(_)
Flatten(ss) == IF ss = <<>> THEN <<>> ELSE Head(ss) \o Flatten(Tail(ss))

\* String.length of the text a token sequence stands for
RECURSIVE Width(_)
Width(toks) == IF toks = <<>> THEN 0 ELSE Len(Head(toks)) + Width(Tail(toks))

\* The string a token sequence stands for
RECURSIVE Text(_)
Text(toks) == IF toks = <<>> THEN "" ELSE Head(toks) \o Text(Tail(toks))

IsBlank(tok) == tok = " "

RECURSIVE LeadingBlanks(_)
LeadingBlanks(toks) ==
  IF toks = <<>> \/ ~IsBlank(Head(toks)) THEN 0 ELSE 1 + LeadingBlanks(Tail(toks))

RECURSIVE TrailingBlanks(_)
TrailingBlanks(toks) ==
  IF toks = <<>> \/ ~IsBlank(toks[Len(toks)]) THEN 0
  ELSE 1 + TrailingBlanks(SubSeq(toks, 1, Len(toks) - 1))

\* String.prototype.trim
Trim(toks) ==
  IF LeadingBlanks(toks) = Len(toks) THEN <<>>
  ELSE SubSeq(toks, LeadingBlanks(toks) + 1, Len(toks) - TrailingBlanks(toks))

(***************************************************************************)
(* Schema model (types GhosttySchema / OptionInfo; loader.ts)              *)
(***************************************************************************)

\* The fallback object literal of loadSchema's catch block
FallbackSchema ==
  [version |-> "0.0.0", description |-> "Fallback schema",
   options |-> <<>>, types |-> <<>>, repeatableKeys |-> <<>>]

\* A schema artifact as shipped: optional OptionInfo fields are present or not
GhosttySchema ==
  [version |-> "1.0.0", description |-> "Ghostty schema",
   options |->
     [k \in {"font-size", "background", "keybind", "font-family", "palette", "gtk-titlebar"} |->
        CASE k = "font-size"    -> [type |-> "number"]
          [] k = "background"   -> [type |-> "color", repeatable |-> FALSE]
          [] k = "keybind"      -> [type |-> "keybind"]
          [] k = "font-family"  -> [type |-> "string", repeatable |-> TRUE]
          [] k = "palette"      -> [type |-> "string", repeatable |-> TRUE]
          [] k = "gtk-titlebar" -> [type |-> "boolean", deprecated |-> TRUE,
                                    platforms |-> <<"linux">>]],
   types |-> <<>>,
   repeatableKeys |-> <<"keybind", "palette", "config-file">>]

\* The same catalogue with no repeatableKeys array entries and other flags
AltSchema ==
  [version |-> "1.0.1", description |-> "Ghostty schema",
   options |->
     [k \in {"font-size", "keybind", "gtk-titlebar"} |->
        CASE k = "font-size"    -> [type |-> "number", platforms |-> <<>>]
          [] k = "keybind"      -> [type |-> "keybind", repeatable |-> TRUE]
          [] k = "gtk-titlebar" -> [type |-> "boolean", deprecated |-> FALSE,
                                    platforms |-> <<"linux", "macos">>]],
   types |-> <<>>,
   repeatableKeys |-> <<>>]

\* Schema objects are held in the state by the name of their content
Content(name) ==
  CASE name = "ghostty" -> GhosttySchema
    [] name = "alt" -> AltSchema
    [] name = "fallback" -> FallbackSchema

\* Property names every plain object inherits from Object.prototype: the
\* objects JSON.parse and object literals build answer options[key] for them
ObjectPrototypeKeys == {"constructor"}

\* What options[key] evaluates to for an inherited name: an object that is
\* no OptionInfo (it has none of type, deprecated, platforms, repeatable)
InheritedProperty == [inherited |-> "Object.prototype"]

\* Truthiness of schema.options[key]
HasOption(s, key) == key \in DOMAIN s.options \/ key \in ObjectPrototypeKeys

\* schema.options[key], where it is truthy
OptionOf(s, key) ==
  IF key \in DOMAIN s.options THEN s.options[key] ELSE InheritedProperty

\* The key has an entry of its own in the option catalogue
HasSchemaEntry(s, key) == key \in DOMAIN s.options

isRepeatableKey_ArrayOnly(s, key) == key \in Range(s.repeatableKeys)

isRepeatableKey(s, key) ==
  IF key \in Range(s.repeatableKeys) THEN TRUE
  ELSE /\ HasOption(s, key)
       /\ "repeatable" \in DOMAIN OptionOf(s, key)
       /\ OptionOf(s, key).repeatable = TRUE

(***************************************************************************)
(* Line parser (parser/configParser): classification and spans             *)
(***************************************************************************)
RECURSIVE IndexOf(_, _, _)
IndexOf(toks, tok, from) ==
  IF from > Len(toks) THEN 0
  ELSE IF toks[from] = tok THEN from ELSE IndexOf(toks, tok, from + 1)

parseLine(raw, lineNumber) ==
  LET trimmed == Trim(raw)
      sep == IndexOf(raw, "=", 1)
      keyPart == SubSeq(raw, 1, sep - 1)
      keyToks == Trim(keyPart)
      valueToks == SubSeq(raw, sep + 1, Len(raw))
      keyStart == Width(SubSeq(keyPart, 1, LeadingBlanks(keyPart)))
  IN IF trimmed = <<>> THEN [lineNumber |-> lineNumber, raw |-> raw, type |-> "empty"]
     ELSE IF Head(trimmed) = "#"
       THEN [lineNumber |-> lineNumber, raw |-> raw, type |-> "comment"]
     ELSE IF sep = 0 \/ keyToks = <<>>
       THEN [lineNumber |-> lineNumber, raw |-> raw, type |-> "invalid"]
     ELSE [lineNumber |-> lineNumber, raw |-> raw, type |-> "keyValue",
           key |-> Text(keyToks), value |-> valueToks,
           keyRange |-> [start |-> keyStart, end |-> keyStart + Width(keyToks)],
           valueRange |-> [start |-> Width(SubSeq(raw, 1, sep)), end |-> Width(raw)]]

parseDocument(text) == [i \in 1..Len(text) |-> parseLine(text[i], i - 1)]

(***************************************************************************)
(* Value validator (validation/validators): type-directed, pure            *)
(***************************************************************************)
NumberValues == {"14", "16"}
BooleanValues == {"true", "false"}

\* One rule per declared type; the three failing rules return the three
\* shapes of an invalid ValidationResult (message and severity are optional)
validateValue(s, key, value) ==
  LET v == Text(Trim(value))
      type == IF HasSchemaEntry(s, key) /\ "type" \in DOMAIN s.options[key]
              THEN s.options[key].type ELSE "none"
  IN CASE type = "number" ->
            IF v \in NumberValues THEN [isValid |-> TRUE]
            ELSE [isValid |-> FALSE, message |-> "Expected a number", severity |-> "error"]
       [] type = "boolean" ->
            IF v \in BooleanValues THEN [isValid |-> TRUE]
            ELSE [isValid |-> FALSE, message |-> "Expected true or false"]
       [] type = "keybind" ->
            IF IndexOf(Trim(value), "=", 1) > 0 THEN [isValid |-> TRUE]
            ELSE [isValid |-> FALSE]
       [] OTHER -> [isValid |-> TRUE]

(***************************************************************************)
(* Diagnostic provider (providers/diagnosticProvider)                      *)
(***************************************************************************)
\* new vscode.Range(startLine, startCharacter, endLine, endCharacter)
NewRange(l1, c1, l2, c2) ==
  [start |-> [line |-> l1, character |-> c1], end |-> [line |-> l2, character |-> c2]]

\* new vscode.Diagnostic(range, message, severity)
NewDiagnostic(range, message, severity) ==
  [range |-> range, message |-> message, severity |-> severity]

\* A message template with its interpolated values
InvalidMessage == [text |-> "Invalid line format. Expected: key = value or # comment"]
UnknownMessage(key) == [text |-> "Unknown configuration key", key |-> key]
DeprecatedMessage(key) == [text |-> "is deprecated and may be removed in future versions",
                           key |-> key]
PlatformMessage(key, platforms, current) ==
  [text |-> "is only available on", key |-> key, platforms |-> platforms, current |-> current]
DuplicateMessage(key, firstLine) ==
  [text |-> "Duplicate key", key |-> key, firstDefinedOnLine |-> firstLine]
ValidatorMessage(message) == [validator |-> message]

WholeLineRange(line) == NewRange(line.lineNumber, 0, line.lineNumber, Width(line.raw))

\* line.keyRange ? new Range(.. keyRange ..) : new Range(.. 0 .. raw.length)
KeyRangeOrLine(line) ==
  IF "keyRange" \in DOMAIN line
  THEN NewRange(line.lineNumber, line.keyRange.start, line.lineNumber, line.keyRange.end)
  ELSE WholeLineRange(line)

ValueRangeOrLine(line) ==
  IF "valueRange" \in DOMAIN line
  THEN NewRange(line.lineNumber, line.valueRange.start, line.lineNumber, line.valueRange.end)
  ELSE WholeLineRange(line)

getCurrentPlatform(p) ==
  IF p = "darwin" THEN "macos" ELSE IF p = "linux" THEN "linux" ELSE Null

getDiagnosticSeverity(cfg) ==
  CASE cfg.diagnosticSeverity = "Error" -> "Error"
    [] cfg.diagnosticSeverity = "Warning" -> "Warning"
    [] cfg.diagnosticSeverity = "Information" -> "Information"
    [] cfg.diagnosticSeverity = "Hint" -> "Hint"
    [] OTHER -> "Warning"

\* The argument is the ValidationResult, its severity field optional
mapValidationSeverity(validation) ==
  IF "severity" \notin DOMAIN validation THEN "Warning"
  ELSE CASE validation.severity = "error" -> "Error"
         [] validation.severity = "warning" -> "Warning"
         [] validation.severity = "info" -> "Information"
         [] validation.severity = "hint" -> "Hint"
         [] OTHER -> "Warning"

\* Truthiness of validation.message
HasMessage(validation) == "message" \in DOMAIN validation /\ validation.message # ""

DeprecatedSeverity_Configured(cfg) == getDiagnosticSeverity(cfg)

\* The severity the "Deprecated key hint" block passes
DeprecatedSeverity(cfg) == "Hint"

\* The "Deprecated key hint" block
DeprecatedDiagnostics(line, option, cfg) ==
  IF "deprecated" \in DOMAIN option /\ option.deprecated
  THEN <<NewDiagnostic(KeyRangeOrLine(line), DeprecatedMessage(line.key),
                       DeprecatedSeverity(cfg))>>
  ELSE <<>>

PlatformMismatch_IgnoreHints(option, cfg, p) ==
  /\ "platforms" \in DOMAIN option
  /\ Len(option.platforms) > 0
  /\ getCurrentPlatform(p) # Null
  /\ getCurrentPlatform(p) \notin Range(option.platforms)

\* The guards of the "Platform-specific hint" block
PlatformMismatch(option, cfg, p) ==
  /\ "platforms" \in DOMAIN option
  /\ Len(option.platforms) > 0
  /\ cfg.showPlatformHints
  /\ getCurrentPlatform(p) # Null
  /\ getCurrentPlatform(p) \notin Range(option.platforms)

PlatformDiagnostics(line, option, cfg, p) ==
  IF PlatformMismatch(option, cfg, p)
  THEN <<NewDiagnostic(KeyRangeOrLine(line),
                       PlatformMessage(line.key, option.platforms, getCurrentPlatform(p)),
                       "Information")>>
  ELSE <<>>

\* value.trim() !== ''
CallsValidator(value) == Trim(value) # <<>>

\* The "Value validation" block, given the validator's result
ValueDiagnostics(line, validation) ==
  IF ~validation.isValid /\ HasMessage(validation)
  THEN <<NewDiagnostic(ValueRangeOrLine(line), ValidatorMessage(validation.message),
                       mapValidationSeverity(validation))>>
  ELSE <<>>

InvalidLineDiagnostics_Warning(line) ==
  <<NewDiagnostic(WholeLineRange(line), InvalidMessage, "Warning")>>

InvalidLineDiagnostics(line) ==
  <<NewDiagnostic(WholeLineRange(line), InvalidMessage, "Error")>>

UnknownKeyDiagnostics(line, cfg) ==
  <<NewDiagnostic(KeyRangeOrLine(line), UnknownMessage(line.key), getDiagnosticSeverity(cfg))>>

\* validateLine: the diagnostics it returns, and the validateValue calls it makes
validateLine(line, s, cfg, p) ==
  IF line.type = "invalid"
    THEN [diagnostics |-> InvalidLineDiagnostics(line), calls |-> <<>>]
  ELSE IF line.type # "keyValue" \/ line.key = ""
    THEN [diagnostics |-> <<>>, calls |-> <<>>]
  ELSE IF ~HasOption(s, line.key)
    THEN [diagnostics |-> UnknownKeyDiagnostics(line, cfg), calls |-> <<>>]
  ELSE LET option == OptionOf(s, line.key)
           validation == validateValue(s, line.key, line.value)
       IN IF CallsValidator(line.value)
          THEN [diagnostics |-> DeprecatedDiagnostics(line, option, cfg)
                                \o PlatformDiagnostics(line, option, cfg, p)
                                \o ValueDiagnostics(line, validation),
                calls |-> <<[lineNumber |-> line.lineNumber, key |-> line.key,
                             value |-> line.value, result |-> validation]>>]
          ELSE [diagnostics |-> DeprecatedDiagnostics(line, option, cfg)
                                \o PlatformDiagnostics(line, option, cfg, p),
                calls |-> <<>>]

\* Keys of the Map keyOccurrences, in insertion order
RECURSIVE FirstSeen(_)
FirstSeen(keys) ==
  IF keys = <<>> THEN <<>>
  ELSE <<Head(keys)>> \o FirstSeen(SelectSeq(Tail(keys), LAMBDA k : k # Head(keys)))

\* The lines the collecting loop does not skip
CollectedLines(lines) == SelectSeq(lines, LAMBDA l : l.type = "keyValue" /\ l.key # "")

\* keyOccurrences.get(key)
LineNumbersOf(lines, key) ==
  LET hits == SelectSeq(CollectedLines(lines), LAMBDA l : l.key = key)
  IN [i \in 1..Len(hits) |-> hits[i].lineNumber]

\* The body of the reporting loop for one later occurrence
DuplicateAt(lines, key, firstLine, lineNum) ==
  LET found == SelectSeq(lines, LAMBDA l : l.lineNumber = lineNum)
  IN IF found = <<>> \/ "keyRange" \notin DOMAIN Head(found) THEN <<>>
     ELSE <<NewDiagnostic(
              NewRange(lineNum, Head(found).keyRange.start, lineNum, Head(found).keyRange.end),
              DuplicateMessage(key, firstLine + 1), "Warning")>>

ReportsDuplicates_All(s, key, lineNumbers) == Len(lineNumbers) > 1

\* The two guards in front of the reporting loop
ReportsDuplicates(s, key, lineNumbers) ==
  Len(lineNumbers) > 1 /\ ~isRepeatableKey(s, key)

DuplicatesOfKey_FromFirst(lines, s, key) ==
  LET lineNumbers == LineNumbersOf(lines, key)
  IN IF ~ReportsDuplicates(s, key, lineNumbers) THEN <<>>
     ELSE Flatten([i \in 1..Len(lineNumbers) |->
                     DuplicateAt(lines, key, lineNumbers[1], lineNumbers[i])])

DuplicatesOfKey(lines, s, key) ==
  LET lineNumbers == LineNumbersOf(lines, key)
  IN IF ~ReportsDuplicates(s, key, lineNumbers) THEN <<>>
     ELSE Flatten([i \in 1..(Len(lineNumbers) - 1) |->
                     DuplicateAt(lines, key, lineNumbers[1], lineNumbers[i + 1])])

validateDuplicates(lines, s) ==
  LET collected == CollectedLines(lines)
      keys == FirstSeen([i \in 1..Len(collected) |-> collected[i].key])
  IN Flatten([i \in 1..Len(keys) |-> DuplicatesOfKey(lines, s, keys[i])])

ValidationPass_DuplicatesFirst(text, s, cfg, p) ==
  LET parsedLines == parseDocument(text)
      perLine == [i \in 1..Len(parsedLines) |-> validateLine(parsedLines[i], s, cfg, p)]
  IN [diagnostics |-> validateDuplicates(parsedLines, s)
                      \o Flatten([i \in 1..Len(perLine) |-> perLine[i].diagnostics]),
      calls |-> Flatten([i \in 1..Len(perLine) |-> perLine[i].calls])]

\* The body of updateDiagnostics once diagnostics are enabled
ValidationPass(text, s, cfg, p) ==
  LET parsedLines == parseDocument(text)
      perLine == [i \in 1..Len(parsedLines) |-> validateLine(parsedLines[i], s, cfg, p)]
  IN [diagnostics |-> Flatten([i \in 1..Len(perLine) |-> perLine[i].diagnostics])
                      \o validateDuplicates(parsedLines, s),
      calls |-> Flatten([i \in 1..Len(perLine) |-> perLine[i].calls])]

updateDiagnostics(text) ==
  IF ~config.enableDiagnostics
  THEN /\ diagnosticCollection' = EmptyMap
       /\ validatorCalls' = <<>>
  ELSE LET pass == ValidationPass(text, Content(schema), config, platform)
       IN /\ diagnosticCollection' = (Uri :> pass.diagnostics)
          /\ validatorCalls' = pass.calls

(***************************************************************************)
(* Events the provider subscribes to, and the settings it reads            *)
(***************************************************************************)
\* The lines an edit appends
ConfigLines ==
  { <<"font-size", " ", "=", " ", "14">>,
    <<"font-size", "=", "abc">>,
    <<"font-size", "=", " ">>,
    <<"keybind", "=", "abc">>,
    <<" ", "gtk-titlebar", "=", "abc">>,
    <<"bogus-key", "=", "14">>,
    <<"constructor", "=", "14">>,
    <<"=", "14">> }

\* The text of the file as opened: the first line of the default config
\* that the open-config command writes
OpenedText == << <<"#", " ", "Ghostty", " ", "Configuration">> >>

Platforms == {"darwin", "linux", "win32"}
SeverityStrings == {"Error", "Warning", "Information", "Hint", "error"}

DefaultConfig ==
  [enableDiagnostics |-> TRUE, showPlatformHints |-> TRUE, diagnosticSeverity |-> "Warning"]

onDidOpenTextDocument ==
  /\ Uri \notin DOMAIN textDocuments
  /\ textDocuments' = (Uri :> OpenedText)
  /\ updateDiagnostics(OpenedText)
  /\ UNCHANGED <<platform, schema, config>>
  /\ UNCHANGED loaderVars
  /\ UNCHANGED commandVars

onDidChangeTextDocument ==
  /\ Uri \in DOMAIN textDocuments
  /\ Len(textDocuments[Uri]) < MaxLines
  /\ \E l \in ConfigLines :
       /\ textDocuments' = (Uri :> Append(textDocuments[Uri], l))
       /\ updateDiagnostics(Append(textDocuments[Uri], l))
  /\ UNCHANGED <<platform, schema, config>>
  /\ UNCHANGED loaderVars
  /\ UNCHANGED commandVars

onDidCloseTextDocument ==
  /\ Uri \in DOMAIN textDocuments
  /\ textDocuments' = EmptyMap
  /\ diagnosticCollection' = EmptyMap
  /\ validatorCalls' = <<>>
  /\ UNCHANGED <<platform, schema, config>>
  /\ UNCHANGED loaderVars
  /\ UNCHANGED commandVars

\* The user edits one setting. The provider has no configuration listener:
\* a pass reads the settings when a text event starts it, so the edit is
\* modelled between two sessions of the document.
ChangeConfiguration ==
  /\ Uri \notin DOMAIN textDocuments
  /\ \/ config' = [config EXCEPT !.enableDiagnostics = ~config.enableDiagnostics]
     \/ config' = [config EXCEPT !.showPlatformHints = ~config.showPlatformHints]
     \/ \E sev \in SeverityStrings \ {config.diagnosticSeverity} :
          config' = [config EXCEPT !.diagnosticSeverity = sev]
  /\ UNCHANGED <<platform, schema, textDocuments, diagnosticCollection, validatorCalls>>
  /\ UNCHANGED loaderVars
  /\ UNCHANGED commandVars

(***************************************************************************)
(* Schema loader (schema/loader.ts)                                        *)
(***************************************************************************)
\* What is at <extensionPath>/schema/ghostty-syntax.schema.json
Artifacts ==
  {[state |-> "missing"], [state |-> "corrupt"]}
    \cup {[state |-> "valid", content |-> name] : name \in {"ghostty", "alt"}}

\* cachedSchema = null
NoSchema == [ref |-> 0]
NoQuery == [asked |-> FALSE]

\* loadSchemaFromPath: readFileSync throws on a missing file, JSON.parse on
\* text that is no JSON; otherwise a fresh object holding the content
loadSchemaFromPath(art, ref) ==
  IF art.state = "valid"
  THEN [throws |-> FALSE, value |-> [ref |-> ref, schema |-> art.content]]
  ELSE [throws |-> TRUE]

loadSchemaOutcome_NoCatch(cache, art, ref) ==
  IF cache.ref # 0
  THEN [outcome |-> "resolved", instance |-> cache, cachedSchema |-> cache, read |-> FALSE]
  ELSE LET loaded == loadSchemaFromPath(art, ref)
       IN IF ~loaded.throws
          THEN [outcome |-> "resolved", instance |-> loaded.value,
                cachedSchema |-> loaded.value, read |-> TRUE]
          ELSE [outcome |-> "rejected", instance |-> NoSchema,
                cachedSchema |-> cache, read |-> TRUE]

\* The body of loadSchema. It holds no await, so a call runs to its return
\* before any other call starts; the promise it returns is already settled.
loadSchemaOutcome(cache, art, ref) ==
  IF cache.ref # 0
  THEN [outcome |-> "resolved", instance |-> cache, cachedSchema |-> cache, read |-> FALSE]
  ELSE LET loaded == loadSchemaFromPath(art, ref)
       IN IF ~loaded.throws
          THEN [outcome |-> "resolved", instance |-> loaded.value,
                cachedSchema |-> loaded.value, read |-> TRUE]
          ELSE [outcome |-> "resolved",
                instance |-> [ref |-> ref, schema |-> "fallback"],
                cachedSchema |-> cache, read |-> TRUE]

loadSchema ==
  /\ Len(returned) < MaxCalls
  /\ LET out == loadSchemaOutcome(cachedSchema, artifact, nextRef)
     IN /\ cachedSchema' = out.cachedSchema
        /\ readCount' = readCount + (IF out.read THEN 1 ELSE 0)
        /\ nextRef' = nextRef + (IF out.read THEN 1 ELSE 0)
        /\ returned' = Append(returned, [outcome |-> out.outcome, instance |-> out.instance,
                                         read |-> out.read, artifact |-> artifact.state])
  /\ UNCHANGED <<artifact, repeatableQuery>>
  /\ UNCHANGED diagVars
  /\ UNCHANGED commandVars

\* The file is installed, removed or damaged between two calls
ArtifactChanges ==
  /\ \E art \in Artifacts \ {artifact} : artifact' = art
  /\ UNCHANGED <<cachedSchema, nextRef, readCount, returned, repeatableQuery>>
  /\ UNCHANGED diagVars
  /\ UNCHANGED commandVars

QueryKeys ==
  {"font-size", "background", "keybind", "font-family", "palette", "config-file",
   "bogus-key", "constructor"}

\* A caller asks isRepeatableKey about a schema that loadSchema gave it
CallIsRepeatableKey ==
  /\ \E i \in 1..Len(returned), key \in QueryKeys :
       /\ returned[i].outcome = "resolved"
       /\ repeatableQuery' =
            [asked |-> TRUE, schema |-> returned[i].instance.schema, key |-> key,
             result |-> isRepeatableKey(Content(returned[i].instance.schema), key)]
  /\ UNCHANGED <<artifact, cachedSchema, nextRef, readCount, returned>>
  /\ UNCHANGED diagVars
  /\ UNCHANGED commandVars

(***************************************************************************)
(* Open-config command (commands/openConfig.ts)                            *)
(***************************************************************************)
\* path.join(xdgConfigHome, 'ghostty', 'config')
xdgPath == "~/.config/ghostty/config"

\* path.join(homeDir, 'Library', 'Application Support', 'com.mitchellh.ghostty', 'config')
macosPath == "~/Library/Application Support/com.mitchellh.ghostty/config"

ConfigPaths == {xdgPath, macosPath}

\* What a config path holds: its directory may be missing, the directory may
\* be there without the file, or the file holds the user's own settings or
\* the default content
FileStates == {"no directory", "no file", "user content", "default content"}

\* fs.existsSync(path)
existsSync(fs, path) == fs[path] \in {"user content", "default content"}

\* getConfigLocations: XDG first, then the macOS path on darwin
getConfigLocations(fs, p) ==
  <<[path |-> xdgPath, label |-> "XDG: " \o xdgPath, exists |-> existsSync(fs, xdgPath)]>>
  \o (IF p = "darwin"
      THEN <<[path |-> macosPath, label |-> "macOS: " \o macosPath,
              exists |-> existsSync(fs, macosPath)]>>
      ELSE <<>>)

\* locations.filter((loc) => loc.exists)
existingLocations(locs) == SelectSeq(locs, LAMBDA loc : loc.exists)

\* ensureDirectoryExists followed by fs.writeFileSync(filePath, defaultContent)
createDefaultConfig(fs, filePath) == [fs EXCEPT ![filePath] = "default content"]

NoPath == "none"
NoWrite == [path |-> NoPath, replaced |-> "no file"]

\* The handler of 'ghostty-syntax.openConfig' up to its first await
InvokeOpenConfig ==
  /\ pc = "idle"
  /\ LET locs == getConfigLocations(fileSystem, platform)
         existing == existingLocations(locs)
     IN /\ locations' = locs
        /\ IF Len(existing) = 0
             THEN pc' = "showInformationMessage" /\ selectedPath' = NoPath
           ELSE IF Len(existing) = 1
             THEN pc' = "openTextDocument" /\ selectedPath' = existing[1].path
           ELSE pc' = "showQuickPick existing" /\ selectedPath' = NoPath
  /\ UNCHANGED <<fileSystem, activeEditor, lastWrite>>
  /\ UNCHANGED diagVars
  /\ UNCHANGED loaderVars

\* The user answers 'No Ghostty config found. Create one at ...?'
AnswerCreatePrompt ==
  /\ pc = "showInformationMessage"
  /\ \E create \in {"Create", "Choose Location", "Cancel", "dismissed"} :
       IF create = "Create"
         THEN /\ fileSystem' = createDefaultConfig(fileSystem, locations[1].path)
              /\ lastWrite' = [path |-> locations[1].path,
                               replaced |-> fileSystem[locations[1].path]]
              /\ selectedPath' = locations[1].path
              /\ pc' = "openTextDocument"
       ELSE IF create = "Choose Location"
         THEN /\ pc' = "showQuickPick location"
              /\ UNCHANGED <<fileSystem, lastWrite, selectedPath>>
       ELSE /\ pc' = "idle"
            /\ UNCHANGED <<fileSystem, lastWrite, selectedPath>>
  /\ UNCHANGED <<locations, activeEditor>>
  /\ UNCHANGED diagVars
  /\ UNCHANGED loaderVars

\* The user picks where to create the config file, or dismisses the pick
AnswerLocationPick ==
  /\ pc = "showQuickPick location"
  /\ \/ /\ pc' = "idle"
        /\ UNCHANGED <<fileSystem, lastWrite, selectedPath>>
     \/ \E i \in DOMAIN locations :
          /\ fileSystem' = createDefaultConfig(fileSystem, locations[i].path)
          /\ lastWrite' = [path |-> locations[i].path,
                           replaced |-> fileSystem[locations[i].path]]
          /\ selectedPath' = locations[i].path
          /\ pc' = "openTextDocument"
  /\ UNCHANGED <<locations, activeEditor>>
  /\ UNCHANGED diagVars
  /\ UNCHANGED loaderVars

\* The user picks one of several existing config files, or dismisses the pick
AnswerExistingPick ==
  /\ pc = "showQuickPick existing"
  /\ \/ pc' = "idle" /\ UNCHANGED selectedPath
     \/ \E i \in DOMAIN existingLocations(locations) :
          /\ selectedPath' = existingLocations(locations)[i].path
          /\ pc' = "openTextDocument"
  /\ UNCHANGED <<fileSystem, locations, activeEditor, lastWrite>>
  /\ UNCHANGED diagVars
  /\ UNCHANGED loaderVars

\* openTextDocument(selectedPath) and showTextDocument complete
OpenSelectedConfig ==
  /\ pc = "openTextDocument"
  /\ activeEditor' = selectedPath
  /\ pc' = "idle"
  /\ UNCHANGED <<fileSystem, locations, selectedPath, lastWrite>>
  /\ UNCHANGED diagVars
  /\ UNCHANGED loaderVars

\* Another actor (the user in a terminal, Ghostty itself, a dotfile manager)
\* saves a config file at one of the paths
OtherActorCreates ==
  /\ \E path \in ConfigPaths :
       /\ ~existsSync(fileSystem, path)
       /\ fileSystem' = [fileSystem EXCEPT ![path] = "user content"]
  /\ UNCHANGED <<pc, locations, selectedPath, activeEditor, lastWrite>>
  /\ UNCHANGED diagVars
  /\ UNCHANGED loaderVars

\* The command registered and not running
CommandIdle ==
  /\ pc = "idle"
  /\ locations = <<>>
  /\ selectedPath = NoPath
  /\ activeEditor = NoPath
  /\ lastWrite = NoWrite

LoaderIdle ==
  /\ cachedSchema = NoSchema
  /\ nextRef = 1
  /\ readCount = 0
  /\ returned = <<>>
  /\ repeatableQuery = NoQuery

ProviderIdle ==
  /\ config = DefaultConfig
  /\ textDocuments = EmptyMap
  /\ diagnosticCollection = EmptyMap
  /\ validatorCalls = <<>>

\* extension.ts activate: schema = await loadSchema(context), then the
\* provider is constructed with it while no ghostty document is open
Activated(art) ==
  LET out == loadSchemaOutcome(NoSchema, art, 1)
  IN /\ artifact = art
     /\ cachedSchema = out.cachedSchema
     /\ nextRef = 2
     /\ readCount = 1
     /\ returned = <<[outcome |-> out.outcome, instance |-> out.instance,
                     read |-> out.read, artifact |-> art.state]>>
     /\ repeatableQuery = NoQuery
     /\ schema = out.instance.schema

\* The extension activated with the shipped artifact in place
Init ==
  /\ platform \in Platforms
  /\ Activated([state |-> "valid", content |-> "ghostty"])
  /\ ProviderIdle
  /\ fileSystem = [path \in ConfigPaths |-> "no directory"]
  /\ CommandIdle

Next ==
  \/ onDidOpenTextDocument
  \/ onDidChangeTextDocument
  \/ onDidCloseTextDocument
  \/ ChangeConfiguration

Spec == Init /\ [][Next]_vars

\* The loader module as loaded, before any call
LoaderInit ==
  /\ artifact \in Artifacts
  /\ LoaderIdle
  /\ platform = "linux"
  /\ schema = "fallback"
  /\ ProviderIdle
  /\ fileSystem = [path \in ConfigPaths |-> "no directory"]
  /\ CommandIdle

LoaderNext ==
  \/ loadSchema
  \/ ArtifactChanges
  \/ CallIsRepeatableKey

LoaderSpec == LoaderInit /\ [][LoaderNext]_vars

\* The command registered, with any files a user may already have
OpenConfigInit ==
  /\ platform \in Platforms
  /\ Activated([state |-> "valid", content |-> "ghostty"])
  /\ ProviderIdle
  /\ fileSystem \in [ConfigPaths -> {"no directory", "no file", "user content"}]
  /\ CommandIdle

OpenConfigNext ==
  \/ InvokeOpenConfig
  \/ AnswerCreatePrompt
  \/ AnswerLocationPick
  \/ AnswerExistingPick
  \/ OpenSelectedConfig
  \/ OtherActorCreates

OpenConfigSpec == OpenConfigInit /\ [][OpenConfigNext]_vars

(***************************************************************************)
(* Properties                                                              *)
(***************************************************************************)
\* A validation pass has run on the open document
PassDone == Uri \in DOMAIN textDocuments /\ Uri \in DOMAIN diagnosticCollection

\* The pass's input and output (read only where PassDone holds)
Parsed == parseDocument(textDocuments[Uri])
Reported == diagnosticCollection[Uri]

Kind(d) ==
  IF "validator" \in DOMAIN d.message THEN "value"
  ELSE CASE d.message.text = InvalidMessage.text -> "invalid"
         [] d.message.text = "Unknown configuration key" -> "unknown"
         [] d.message.text = "is deprecated and may be removed in future versions" -> "deprecated"
         [] d.message.text = "is only available on" -> "platform"
         [] d.message.text = "Duplicate key" -> "duplicate"

LineOf(d) == d.range.start.line

\* Line numbers (zero-based) of the keyValue lines that carry the key
Occurrences(parsed, key) ==
  {i - 1 : i \in {j \in DOMAIN parsed : parsed[j].type = "keyValue" /\ parsed[j].key = key}}

KeysOf(parsed) == {parsed[j].key : j \in {i \in DOMAIN parsed : parsed[i].type = "keyValue"}}

\* Positions of the duplicate diagnostics that name the key
DuplicatesNaming(reported, key) ==
  {i \in DOMAIN reported : Kind(reported[i]) = "duplicate" /\ reported[i].message.key = key}

Min(S) == CHOOSE n \in S : \A m \in S : n <= m

\* C1: a non-repeatable key on n > 1 keyValue lines gets exactly n-1 duplicate
\* diagnostics: one warning on each occurrence after the first, each citing
\* the first occurrence's line number plus one, and none on the first.
C1_DuplicatesAfterFirst ==
  PassDone =>
    LET parsed == Parsed
        reported == Reported
    IN \A key \in KeysOf(parsed) :
         LET occ == Occurrences(parsed, key)
             first == Min(occ)
             dups == DuplicatesNaming(reported, key)
         IN (~isRepeatableKey(Content(schema), key) /\ Cardinality(occ) > 1) =>
              /\ Cardinality(dups) = Cardinality(occ) - 1
              /\ \A i \in dups :
                   /\ reported[i].severity = "Warning"
                   /\ reported[i].message.firstDefinedOnLine = first + 1
                   /\ LineOf(reported[i]) \in occ \ {first}
              /\ \A n \in occ \ {first} :
                   Cardinality({i \in dups : LineOf(reported[i]) = n}) = 1

C1_Witness ==
  /\ PassDone
  /\ \E key \in KeysOf(Parsed) :
       /\ ~isRepeatableKey(Content(schema), key)
       /\ Cardinality(Occurrences(Parsed, key)) = 3
       /\ Cardinality(DuplicatesNaming(Reported, key)) = 2

\* C2: a key for which isRepeatableKey is true never gets a duplicate
\* diagnostic, however many lines carry it and whatever else is in the document.
C2_NoDuplicateForRepeatable ==
  PassDone =>
    \A i \in DOMAIN Reported :
      Kind(Reported[i]) = "duplicate" => ~isRepeatableKey(Content(schema), Reported[i].message.key)

C2_Witness ==
  /\ PassDone
  /\ \E key \in KeysOf(Parsed) :
       /\ isRepeatableKey(Content(schema), key)
       /\ Cardinality(Occurrences(Parsed, key)) = 3

\* The non-unknown-key diagnostics of a diagnostic sequence, in order
ExceptUnknown(reported) == SelectSeq(reported, LAMBDA d : Kind(d) # "unknown")

\* C4: every unknown-key diagnostic has the severity the diagnosticSeverity
\* setting names (an unrecognised string counts as Warning), and the setting
\* changes nothing else: the diagnostics of every other kind are those the
\* same pass reports under the default setting, hence under any setting.
C4_SeverityOnlyForUnknownKeys ==
  PassDone =>
    LET reported == Reported
        setting == config.diagnosticSeverity
        expected == IF setting \in {"Error", "Warning", "Information", "Hint"}
                    THEN setting ELSE "Warning"
    IN /\ \A i \in DOMAIN reported :
            Kind(reported[i]) = "unknown" => reported[i].severity = expected
       /\ ExceptUnknown(ValidationPass(textDocuments[Uri], Content(schema),
                                       [config EXCEPT !.diagnosticSeverity = "Warning"],
                                       platform).diagnostics)
            = ExceptUnknown(reported)

C4_Witness ==
  /\ PassDone
  /\ config.diagnosticSeverity = "Error"
  /\ \E i \in DOMAIN Reported : Kind(Reported[i]) = "unknown" /\ Reported[i].severity = "Error"
  /\ \E i \in DOMAIN Reported : Kind(Reported[i]) = "deprecated"
  /\ \E i \in DOMAIN Reported : Kind(Reported[i]) = "duplicate"

\* C5: the value validator is invoked only for keyValue lines whose key has
\* a schema entry and whose trimmed value is non-empty, so a line with an
\* empty or blank value, or with an unknown key, gets no value diagnostic.
C5_ValidatorOnlyForSchemaKeys ==
  PassDone =>
    /\ \A i \in DOMAIN validatorCalls :
         /\ HasSchemaEntry(Content(schema), validatorCalls[i].key)
         /\ Trim(validatorCalls[i].value) # <<>>
    /\ \A i \in DOMAIN Reported :
         Kind(Reported[i]) = "value" =>
           LET line == Parsed[LineOf(Reported[i]) + 1]
           IN /\ line.type = "keyValue"
              /\ HasSchemaEntry(Content(schema), line.key)
              /\ Trim(line.value) # <<>>

\* C6: a platform-mismatch diagnostic is reported for a line only if the
\* option has a non-empty platform restriction, showPlatformHints is true and
\* the host maps to a known tag (darwin to macos, linux to linux) that is not
\* in the restriction.
C6_PlatformHintGuards ==
  PassDone =>
    \A i \in DOMAIN Reported :
      Kind(Reported[i]) = "platform" =>
        LET key == Reported[i].message.key
        IN /\ HasSchemaEntry(Content(schema), key)
           /\ "platforms" \in DOMAIN Content(schema).options[key]
           /\ Content(schema).options[key].platforms # <<>>
           /\ config.showPlatformHints
           /\ \/ platform = "darwin" /\ "macos" \notin Range(Content(schema).options[key].platforms)
              \/ platform = "linux" /\ "linux" \notin Range(Content(schema).options[key].platforms)

C6_Witness ==
  /\ PassDone
  /\ platform = "darwin"
  /\ config.showPlatformHints
  /\ \E i \in DOMAIN Reported :
       Kind(Reported[i]) = "platform" /\ Reported[i].message.current = "macos"

\* C9: a line classified invalid gets exactly one diagnostic: error severity,
\* the fixed invalid-format message, from offset 0 to the length of the raw
\* line; nothing of any other kind is reported for that line.
C9_InvalidLineOneError ==
  PassDone =>
    LET parsed == Parsed
        reported == Reported
    IN \A n \in DOMAIN parsed :
         parsed[n].type = "invalid" =>
           LET here == {i \in DOMAIN reported : LineOf(reported[i]) = n - 1}
           IN /\ Cardinality(here) = 1
              /\ \A i \in here :
                   /\ reported[i].severity = "Error"
                   /\ reported[i].message = InvalidMessage
                   /\ reported[i].range =
                        NewRange(n - 1, 0, n - 1, Width(textDocuments[Uri][n]))

C9_Witness ==
  /\ PassDone
  /\ Len(Parsed) = 4
  /\ Parsed[2].type = "keyValue"
  /\ Parsed[3].type = "invalid"
  /\ Parsed[4].type = "keyValue"
  /\ \E i \in DOMAIN Reported : Kind(Reported[i]) = "invalid" /\ LineOf(Reported[i]) = 2

\* C10: every invalid result of the value validator (with or without a
\* message, with or without a severity) becomes exactly one value diagnostic
\* on its line, at the value span, with the validator's severity or Warning.
C10_InvalidResultReported ==
  PassDone =>
    LET reported == Reported
        parsed == Parsed
    IN \A c \in DOMAIN validatorCalls :
         ~validatorCalls[c].result.isValid =>
           LET n == validatorCalls[c].lineNumber
               here == {i \in DOMAIN reported :
                          Kind(reported[i]) = "value" /\ LineOf(reported[i]) = n}
           IN /\ Cardinality(here) = 1
              /\ \A i \in here :
                   /\ reported[i].range = ValueRangeOrLine(parsed[n + 1])
                   /\ reported[i].severity = mapValidationSeverity(validatorCalls[c].result)

\* Position of a diagnostic kind in the order validateLine and the duplicate
\* pass emit them for one line
KindRank(d) ==
  CASE Kind(d) \in {"invalid", "unknown", "deprecated"} -> 1
    [] Kind(d) = "platform" -> 2
    [] Kind(d) = "value" -> 3
    [] Kind(d) = "duplicate" -> 4

\* Earlier line, or same line and no later kind
LineThenKind(d, e) ==
  \/ LineOf(d) < LineOf(e)
  \/ LineOf(d) = LineOf(e) /\ KindRank(d) <= KindRank(e)

C3_RepeatableIff ==
  repeatableQuery.asked =>
    LET s == Content(repeatableQuery.schema)
        key == repeatableQuery.key
    IN repeatableQuery.result =
         (\/ \E i \in DOMAIN s.repeatableKeys : s.repeatableKeys[i] = key
          \/ /\ key \in DOMAIN s.options
             /\ "repeatable" \in DOMAIN s.options[key]
             /\ s.options[key].repeatable)

C3_Witness ==
  /\ repeatableQuery.asked
  /\ repeatableQuery.schema = "ghostty"
  /\ repeatableQuery.key = "font-family"
  /\ repeatableQuery.result

IsEmptySchema(s) ==
  /\ DOMAIN s.options = {}
  /\ DOMAIN s.types = {}
  /\ s.repeatableKeys = <<>>

\* C7: a loadSchema call that finds the artifact missing or unparsable does
\* not raise: it resolves to a valid empty schema (no call raises at all).
C7_FailedLoadResolvesEmpty ==
  \A i \in DOMAIN returned :
    /\ returned[i].outcome = "resolved"
    /\ (returned[i].read /\ returned[i].artifact \in {"missing", "corrupt"}) =>
         IsEmptySchema(Content(returned[i].instance.schema))

C7_Witness ==
  \E i \in DOMAIN returned :
    /\ returned[i].read
    /\ returned[i].artifact = "corrupt"
    /\ returned[i].outcome = "resolved"
    /\ IsEmptySchema(Content(returned[i].instance.schema))

\* C8: over any sequence of loadSchema calls, calls after a failed load
\* included, every call returns the same instance and the artifact is read
\* at most once.
C8_OneInstanceOneRead ==
  /\ readCount <= 1
  /\ \A i, j \in DOMAIN returned : returned[i].instance.ref = returned[j].instance.ref

\* C12: the open-config command never overwrites an existing config file:
\* every write of the default content goes to a path at which no file exists
\* at the moment of the write, also when another actor creates the file while
\* the command waits for the answer to a prompt.
C12_NeverOverwrites ==
  lastWrite.replaced \in {"no directory", "no file"}

====
